---------------------------- MODULE Spec2Model ----------------------------
(***************************************************************************)
(* A model of the embedding-model evaluation harness eval_embeddings.ts:   *)
(* the ranking metrics (recallAtK, meanReciprocalRank), the similarity     *)
(* engine (matmul, transpose), the batch encoder (encodeTexts) and the     *)
(* multi-model runner (evaluateModel, main).                               *)
(*                                                                         *)
(* Three specifications share the module:                                  *)
(*   Spec         the run of main(): load, per model obtain the provider,  *)
(*                encode corpus and queries one awaited call at a time,    *)
(*                build the record, and finally print the report;          *)
(*   MetricsSpec  recallAtK and meanReciprocalRank applied to bounded      *)
(*                similarity matrices and ground truths;                   *)
(*   SimSpec      matmul(q, transpose(c)) applied to bounded embedding     *)
(*                sets.                                                    *)
(*                                                                         *)
(* JavaScript numbers are modelled by exact non-negative rationals plus    *)
(* the two non-finite values NaN and Infinity that a division by zero      *)
(* produces.  Corpus indices are 0-based as in the source; TLA+ sequences  *)
(* are 1-based, so column index idx of a row is position idx + 1.          *)
(***************************************************************************)
EXTENDS Integers, Sequences, FiniteSets, TLC

VARIABLES
    \* ---- main(): the run of the harness
    batchSize,       \* the batchSize argument of encodeTexts
    xmlTexts,        \* corpus texts returned by loadDataset
    descriptions,    \* query texts returned by loadDataset
    pc,              \* position of the single thread of control
    model,           \* index of the MODELS entry being evaluated (0: none yet)
    phase,           \* which encodeTexts call runs: "none", "xml", "query"
    extractor,       \* provider instance held by evaluateModel (0: none)
    i,               \* encodeTexts: offset of the current batch
    batch,           \* encodeTexts: the current batch
    bpos,            \* encodeTexts: texts of the batch already embedded
    allEmbeddings,   \* encodeTexts: vectors collected so far
    peakRss,         \* encodeTexts: running maximum of the rss samples
    inflight,        \* provider invocations started and not yet settled
    xmlResult,       \* evaluateModel: EncodingResult of the corpus, or None
    queryResult,     \* evaluateModel: EncodingResult of the queries, or None
    allResults,      \* main: records pushed so far
    reported,        \* records printed under "FINAL RESULTS"
    failure,         \* the rejected await that ended the run, or None
    obtained,        \* models whose provider has been obtained
    \* ---- the metrics applied as pure functions
    similarityMatrix,
    groundTruth,
    recallOut,       \* k -> recallAtK(similarityMatrix, groundTruth, k), or None
    mrrOut,          \* meanReciprocalRank(similarityMatrix, groundTruth), or None
    \* ---- the similarity engine applied as a pure function
    queryEmb,
    corpusEmb,
    simOut           \* outcome of matmul(queryEmb, transpose(corpusEmb)), or None

mainVars == <<batchSize, xmlTexts, descriptions, pc, model, phase, extractor, i,
              batch, bpos, allEmbeddings, peakRss, inflight, xmlResult,
              queryResult, allResults, reported, failure, obtained>>
metricVars == <<similarityMatrix, groundTruth, recallOut, mrrOut>>
simVars == <<queryEmb, corpusEmb, simOut>>
vars == <<mainVars, metricVars, simVars>>

None == [k |-> "none"]

-----------------------------------------------------------------------------
(* Bounds of the model *)

MaxQ == 2            \* query rows of the general matrices
MaxC == 2            \* corpus columns of the general matrices
MaxRowLen == 4       \* corpus columns of the one-row matrices
MaxK == 5            \* recall cut-offs 0..MaxK
MaxTiedN == 4        \* size of the all-tied square matrices
MaxPerfectN == 5     \* size of the identity matrices
Scores == {0, 1}
WideScores == {0, 1, 2}
MaxVecs == 2         \* vectors per embedding set
MaxDim == 4          \* dimensionality of an embedding set
Entries == {0, 1}    \* components of the embedding vectors
MaxTexts == 3        \* records of the dataset
MaxBatch == 2        \* batchSize ranges over 1..MaxBatch
NumModels == 2       \* entries of MODELS

\* the {reply, description} records a dataset line may hold
Items == {[reply |-> "a", description |-> "p"],
          [reply |-> "b", description |-> "q"],
          [reply |-> "c", description |-> "r"]}

\* what the clocks may read over one encodeTexts call: elapsed hrtime in ns,
\* user + system CPU time in microseconds
TimingReadings == {[wallNs |-> 250000, cpuUs |-> 0],
                   [wallNs |-> 2000000, cpuUs |-> 3000]}

\* what process.memoryUsage().rss may read, in bytes
RssReadings == {3145728}

-----------------------------------------------------------------------------
(* JavaScript numbers: non-negative rationals, NaN and Infinity *)

Min(a, b) == IF a < b THEN a ELSE b
Max(a, b) == IF a > b THEN a ELSE b

RECURSIVE GCD(_, _)
GCD(a, b) == IF b = 0 THEN a ELSE GCD(b, a % b)

NaN == [k |-> "NaN", n |-> 0, d |-> 1]
Infinity == [k |-> "Infinity", n |-> 0, d |-> 1]
Num(n, d) == [k |-> "num", n |-> n \div GCD(n, d), d |-> d \div GCD(n, d)]
FromInt(n) == Num(n, 1)

IsFinite(x) == x.k = "num"

\* x / y
FDiv(x, y) ==
    IF x.k = "NaN" \/ y.k = "NaN" THEN NaN
    ELSE IF x.k = "Infinity" THEN (IF y.k = "Infinity" THEN NaN ELSE Infinity)
    ELSE IF y.k = "Infinity" THEN FromInt(0)
    ELSE IF y.n = 0 THEN (IF x.n = 0 THEN NaN ELSE Infinity)
    ELSE Num(x.n * y.d, x.d * y.n)

\* x * y
FMul(x, y) ==
    IF x.k = "NaN" \/ y.k = "NaN" THEN NaN
    ELSE IF x.k = "Infinity" THEN (IF y.k = "num" /\ y.n = 0 THEN NaN ELSE Infinity)
    ELSE IF y.k = "Infinity" THEN (IF x.n = 0 THEN NaN ELSE Infinity)
    ELSE Num(x.n * y.n, x.d * y.d)

\* x + y
FAdd(x, y) ==
    IF x.k = "NaN" \/ y.k = "NaN" THEN NaN
    ELSE IF x.k = "Infinity" \/ y.k = "Infinity" THEN Infinity
    ELSE Num(x.n * y.d + y.n * x.d, x.d * y.d)

\* x <= y : false as soon as one side is NaN
FLeq(x, y) ==
    IF x.k = "NaN" \/ y.k = "NaN" THEN FALSE
    ELSE IF y.k = "Infinity" THEN TRUE
    ELSE IF x.k = "Infinity" THEN FALSE
    ELSE x.n * y.d <= y.n * x.d

-----------------------------------------------------------------------------
(* Array helpers *)

\* Array.prototype.slice(start, end): negative arguments count from the end
SliceIndex(x, len) == IF x < 0 THEN Max(len + x, 0) ELSE Min(x, len)
Slice(s, start, end) ==
    SubSeq(s, SliceIndex(start, Len(s)) + 1, SliceIndex(end, Len(s)))

\* Array.prototype.includes
Includes(s, x) == \E p \in 1..Len(s) : s[p] = x

\* Array.prototype.indexOf: 0-based position of the first occurrence, or -1
IndexOf(s, x) ==
    IF Includes(s, x)
    THEN (CHOOSE p \in 1..Len(s) : s[p] = x /\ \A q \in 1..(p - 1) : s[q] # x) - 1
    ELSE -1

\* row.map((score, idx) => ({ score, idx }))
WithIdx(row) == [p \in 1..Len(row) |-> [score |-> row[p], idx |-> p - 1]]

\* The comparator of an ascending sort, (a, b) => a.score - b.score.
CompareAsc(a, b) == a.score - b.score

\* the comparator (a, b) => b.score - a.score
CompareDesc(a, b) == b.score - a.score

\* A sort that is not stable: item goes in front of the elements equal to it.
RECURSIVE InsertSortedUnstable(_, _)
InsertSortedUnstable(sorted, item) ==
    IF sorted = <<>> THEN <<item>>
    ELSE IF CompareDesc(sorted[Len(sorted)], item) < 0
         THEN Append(sorted, item)
         ELSE Append(InsertSortedUnstable(SubSeq(sorted, 1, Len(sorted) - 1), item),
                     sorted[Len(sorted)])

\* Insert item behind every element that does not compare greater than it:
\* Array.prototype.sort is stable, so equal elements keep their input order.
RECURSIVE InsertSorted(_, _)
InsertSorted(sorted, item) ==
    IF sorted = <<>> THEN <<item>>
    ELSE IF CompareDesc(sorted[Len(sorted)], item) <= 0
         THEN Append(sorted, item)
         ELSE Append(InsertSorted(SubSeq(sorted, 1, Len(sorted) - 1), item),
                     sorted[Len(sorted)])

RECURSIVE SortPrefix(_, _)
SortPrefix(items, n) ==
    IF n = 0 THEN <<>> ELSE InsertSorted(SortPrefix(items, n - 1), items[n])

\* items.sort((a, b) => b.score - a.score)
SortDesc(items) == SortPrefix(items, Len(items))

\* .map(item => item.idx)
Idxs(items) == [p \in 1..Len(items) |-> items[p].idx]

-----------------------------------------------------------------------------
(* METRICS *)

\* the full ranking of a row: corpus indices by descending score
RankedAll(row) == Idxs(SortDesc(WithIdx(row)))

\* the first k indices of the ranking
RankedTopK(row, k) == Idxs(Slice(SortDesc(WithIdx(row)), 0, k))

recallAtK(matrix, truth, k) ==
    LET hits == Cardinality({q \in 1..Len(matrix) :
                                Includes(RankedTopK(matrix[q], k), truth[q])})
    IN  FDiv(FromInt(hits), FromInt(Len(matrix)))

\* rank of the ground truth in a row: indexOf(...) + 1, so 0 when it is absent
RankOf(row, t) == IndexOf(RankedAll(row), t) + 1

RECURSIVE RRSum(_, _, _)
RRSum(matrix, truth, n) ==
    IF n = 0 THEN FromInt(0)
    ELSE FAdd(RRSum(matrix, truth, n - 1),
              FDiv(FromInt(1), FromInt(RankOf(matrix[n], truth[n]))))

meanReciprocalRank(matrix, truth) ==
    FDiv(RRSum(matrix, truth, Len(matrix)), FromInt(Len(matrix)))


-----------------------------------------------------------------------------
(* SIMILARITY ENGINE *)

\* what a call produces: a returned value or a thrown error
Value(v) == [k |-> "value", v |-> v, error |-> "none"]
Throw(e) == [k |-> "throw", v |-> <<>>, error |-> e]

\* transpose of a rectangular matrix; [] for the empty matrix
transpose(matrix) ==
    IF Len(matrix) = 0 THEN <<>>
    ELSE [j \in 1..Len(matrix[1]) |-> [r \in 1..Len(matrix) |-> matrix[r][j]]]

\* sum over k < n of a[i][k] * b[k][j]
RECURSIVE DotSum(_, _, _, _, _)
DotSum(a, b, r, j, n) ==
    IF n = 0 THEN 0 ELSE DotSum(a, b, r, j, n - 1) + a[r][n] * b[n][j]

\* matmul of rectangular matrices.  With no row in a the loops do not run.
\* Otherwise b[0].length is read, a TypeError when b has no row; and with at
\* least one column to fill, b[k][j] is read for every k < a[0].length, a
\* TypeError as soon as b has fewer rows than that.  Rows of b beyond
\* a[0].length are never read.
matmul(a, b) ==
    IF Len(a) = 0 THEN Value(<<>>)
    ELSE IF Len(b) = 0 THEN Throw("TypeError")
    ELSE IF Len(b[1]) > 0 /\ Len(a[1]) > Len(b) THEN Throw("TypeError")
    ELSE Value([r \in 1..Len(a) |->
                   [j \in 1..Len(b[1]) |-> DotSum(a, b, r, j, Len(a[1]))]])

-----------------------------------------------------------------------------
(* The metrics applied to bounded inputs *)

NumCols(matrix) == IF matrix = <<>> THEN 0 ELSE Len(matrix[1])

\* every Q x C matrix over Scores with every ground truth into 0..C
\* (C itself is not a column index)
GeneralInput ==
    \E Q \in 0..MaxQ, C \in 0..MaxC :
        /\ similarityMatrix \in [1..Q -> [1..C -> Scores]]
        /\ groundTruth \in [1..Q -> 0..C]

\* every one-row matrix over WideScores with every ground truth into 0..C
OneRowInput ==
    \E C \in 0..MaxRowLen :
        /\ similarityMatrix \in [1..1 -> [1..C -> WideScores]]
        /\ groundTruth \in [1..1 -> 0..C]

\* N x N matrices whose rows each hold one repeated score, identity ground truth
TiedInput ==
    \E N \in 1..MaxTiedN : \E s \in [1..N -> Scores] :
        /\ similarityMatrix = [q \in 1..N |-> [c \in 1..N |-> s[q]]]
        /\ groundTruth = [q \in 1..N |-> q - 1]

\* the N x N identity matrix, identity ground truth
PerfectInput ==
    \E N \in 1..MaxPerfectN :
        /\ similarityMatrix = [q \in 1..N |-> [c \in 1..N |-> IF q = c THEN 1 ELSE 0]]
        /\ groundTruth = [q \in 1..N |-> q - 1]

MetricsIdle ==
    /\ similarityMatrix = <<>>
    /\ groundTruth = <<>>
    /\ recallOut = None
    /\ mrrOut = None

SimIdle ==
    /\ queryEmb = <<>>
    /\ corpusEmb = <<>>
    /\ simOut = None

MainIdle ==
    /\ batchSize = 1
    /\ xmlTexts = <<>>
    /\ descriptions = <<>>
    /\ pc = "idle"
    /\ model = 0
    /\ phase = "none"
    /\ extractor = 0
    /\ i = 0
    /\ batch = <<>>
    /\ bpos = 0
    /\ allEmbeddings = <<>>
    /\ peakRss = 0
    /\ inflight = {}
    /\ xmlResult = None
    /\ queryResult = None
    /\ allResults = <<>>
    /\ reported = <<>>
    /\ failure = None
    /\ obtained = {}

MetricsInit ==
    /\ MainIdle
    /\ SimIdle
    /\ (GeneralInput \/ OneRowInput \/ TiedInput \/ PerfectInput)
    /\ recallOut = None
    /\ mrrOut = None

\* recallAtK for every cut-off 0..MaxK, as evaluateModel calls it per K value
ApplyRecallAtK ==
    /\ recallOut = None
    /\ recallOut' = [k \in 0..MaxK |-> recallAtK(similarityMatrix, groundTruth, k)]
    /\ UNCHANGED <<similarityMatrix, groundTruth, mrrOut, mainVars, simVars>>

ApplyMeanReciprocalRank ==
    /\ mrrOut = None
    /\ mrrOut' = meanReciprocalRank(similarityMatrix, groundTruth)
    /\ UNCHANGED <<similarityMatrix, groundTruth, recallOut, mainVars, simVars>>

MetricsNext == ApplyRecallAtK \/ ApplyMeanReciprocalRank

MetricsSpec == MetricsInit /\ [][MetricsNext]_vars

-----------------------------------------------------------------------------
(* Properties of the metrics *)

One == FromInt(1)

TruthInRange ==
    \A q \in 1..Len(similarityMatrix) :
        groundTruth[q] \in 0..(NumCols(similarityMatrix) - 1)

\* C6 (as stated): for every similarity matrix, ground truth and k1 <= k2,
\* recallAtK at k1 is less than or equal to recallAtK at k2.
C6_RecallMonotone ==
    recallOut # None =>
        \A k1 \in 0..MaxK : \A k2 \in k1..MaxK : FLeq(recallOut[k1], recallOut[k2])

\* Recall is monotone in k whenever the matrix has at least one query row.
RecallMonotoneNonEmpty ==
    (recallOut # None /\ Len(similarityMatrix) >= 1) =>
        \A k1 \in 0..MaxK : \A k2 \in k1..MaxK : FLeq(recallOut[k1], recallOut[k2])

\* C8 (as stated): recallAtK with K >= corpus size equals 1.0 for every
\* similarity matrix (and every ground truth of column indices).
C8_RecallFullAtCorpusSize ==
    (recallOut # None /\ TruthInRange) =>
        \A k \in 0..MaxK : k >= NumCols(similarityMatrix) => recallOut[k] = One

\* With at least one query row and in-range ground truth, K >= corpus size
\* gives recall 1.0.
RecallFullNonEmpty ==
    (recallOut # None /\ TruthInRange /\ Len(similarityMatrix) >= 1) =>
        \A k \in 0..MaxK : k >= NumCols(similarityMatrix) => recallOut[k] = One

\* C9 (as stated): when some ground-truth entry is not a column index,
\* meanReciprocalRank signals a ConfigError instead of returning a number.
C9_OutOfRangeTruthIsConfigError ==
    (mrrOut # None /\ ~TruthInRange) => mrrOut.k = "ConfigError"

\* 1-based position of column t of a row in the descending ranking that keeps
\* equal scores in ascending column order, counted without sorting
StablePosition(row, t) ==
    1 + Cardinality({c \in 0..(Len(row) - 1) :
                        \/ row[c + 1] > row[t + 1]
                        \/ (row[c + 1] = row[t + 1] /\ c < t)})

\* r ranks all columns of row by descending score, ties by ascending column
IsStableDescending(r, row) ==
    /\ Len(r) = Len(row)
    /\ {r[p] : p \in 1..Len(r)} = 0..(Len(row) - 1)
    /\ \A p \in 1..Len(r) : \A q \in (p + 1)..Len(r) :
          \/ row[r[p] + 1] > row[r[q] + 1]
          \/ (row[r[p] + 1] = row[r[q] + 1] /\ r[p] < r[q])

\* an N x N matrix, N >= 1, each row one repeated score, identity ground truth
IsTiedIdentity ==
    /\ Len(similarityMatrix) >= 1
    /\ \A q \in 1..Len(similarityMatrix) :
          /\ Len(similarityMatrix[q]) = Len(similarityMatrix)
          /\ \A c \in 1..Len(similarityMatrix[q]) :
                similarityMatrix[q][c] = similarityMatrix[q][1]
          /\ groundTruth[q] = q - 1

RECURSIVE Harmonic(_)
Harmonic(n) == IF n = 0 THEN FromInt(0) ELSE FAdd(Harmonic(n - 1), Num(1, n))

\* C7: both metrics rank a row's corpus indices by descending score with equal
\* scores in ascending corpus index order; recallAtK keeps the first
\* min(k, C) of that ranking; so on an N x N matrix whose rows each hold one
\* repeated score, with identity ground truth, Recall@k = min(k, N) / N
\* (0.5 for N = 4, k = 2) and the reciprocal ranks are 1, 1/2, ..., 1/N.
C7_StableTieBreak ==
    /\ mrrOut # None =>
          \A q \in 1..Len(similarityMatrix) :
              IsStableDescending(RankedAll(similarityMatrix[q]), similarityMatrix[q])
    /\ recallOut # None =>
          \A q \in 1..Len(similarityMatrix) :
              LET row == similarityMatrix[q]
                  ranked == RankedAll(row)
              IN  /\ IsStableDescending(ranked, row)
                  /\ \A k \in 0..MaxK :
                        RankedTopK(row, k) = SubSeq(ranked, 1, Min(k, Len(row)))
    /\ (recallOut # None /\ IsTiedIdentity) =>
          \A k \in 0..MaxK :
              recallOut[k] = Num(Min(k, Len(similarityMatrix)), Len(similarityMatrix))
    /\ (mrrOut # None /\ IsTiedIdentity) =>
          mrrOut = FDiv(Harmonic(Len(similarityMatrix)), FromInt(Len(similarityMatrix)))

\* a 4 x 4 all-tied matrix with identity ground truth whose Recall@2 came out 0.5
C7_Witness ==
    /\ IsTiedIdentity
    /\ Len(similarityMatrix) = 4
    /\ recallOut # None
    /\ recallOut[2] = Num(1, 2)
    /\ mrrOut # None

RECURSIVE SumReciprocalRanks(_, _, _)
SumReciprocalRanks(matrix, truth, n) ==
    IF n = 0 THEN FromInt(0)
    ELSE FAdd(SumReciprocalRanks(matrix, truth, n - 1),
              Num(1, StablePosition(matrix[n], truth[n])))

\* every row's ground-truth column holds the strictly greatest score of the row
TruthStrictlyBest ==
    /\ TruthInRange
    /\ \A q \in 1..Len(similarityMatrix) :
          \A c \in 1..Len(similarityMatrix[q]) :
              c # groundTruth[q] + 1 =>
                  similarityMatrix[q][c] < similarityMatrix[q][groundTruth[q] + 1]

\* C10: meanReciprocalRank is the mean over the queries of 1/rank, rank the
\* 1-based position of the ground truth in the row's descending ranking; and
\* with at least one query, when every row's ground-truth document has the
\* strictly greatest score of its row, Recall@1 = 1.0 and MRR = 1.0.
C10_PerfectRetrieval ==
    /\ (mrrOut # None /\ Len(similarityMatrix) >= 1 /\ TruthInRange) =>
          mrrOut = FDiv(SumReciprocalRanks(similarityMatrix, groundTruth,
                                           Len(similarityMatrix)),
                        FromInt(Len(similarityMatrix)))
    /\ (Len(similarityMatrix) >= 1 /\ TruthStrictlyBest) =>
          /\ recallOut # None => recallOut[1] = One
          /\ mrrOut # None => mrrOut = One

\* the 5 x 5 identity matrix with identity ground truth, both metrics computed
C10_Witness ==
    /\ Len(similarityMatrix) = 5
    /\ \A q \in 1..5 : \A c \in 1..5 :
          similarityMatrix[q][c] = (IF q = c THEN 1 ELSE 0)
    /\ groundTruth = <<0, 1, 2, 3, 4>>
    /\ recallOut # None /\ recallOut[1] = One
    /\ mrrOut # None /\ mrrOut = One

-----------------------------------------------------------------------------
(* The similarity engine applied to bounded embedding sets *)

SimInit ==
    /\ MainIdle
    /\ MetricsIdle
    /\ \E Q \in 0..MaxVecs, Dq \in 1..MaxDim : queryEmb \in [1..Q -> [1..Dq -> Entries]]
    /\ \E C \in 0..MaxVecs, Dc \in 1..MaxDim : corpusEmb \in [1..C -> [1..Dc -> Entries]]
    /\ simOut = None

\* const similarityMatrix = matmul(queryResult.embeddings, transpose(xmlResult.embeddings))
ApplySimilarity ==
    /\ simOut = None
    /\ simOut' = matmul(queryEmb, transpose(corpusEmb))
    /\ UNCHANGED <<queryEmb, corpusEmb, mainVars, metricVars>>

SimNext == ApplySimilarity

SimSpec == SimInit /\ [][SimNext]_vars

\* C4 (as stated): with a query set of dimension Dq and a corpus set of
\* dimension Dc # Dq, computing the similarity matrix fails; no matrix is
\* returned.  (Any thrown error is taken for the failure.)
C4_DimensionMismatchFails ==
    (/\ simOut # None
     /\ Len(queryEmb) >= 1
     /\ Len(corpusEmb) >= 1
     /\ Len(queryEmb[1]) # Len(corpusEmb[1])) => simOut.k = "throw"

\* The mismatch is detected only in one direction: more query components
\* than corpus components.
MismatchThrowsOnlyWhenQueryWider ==
    (/\ simOut # None
     /\ Len(queryEmb) >= 1
     /\ Len(corpusEmb) >= 1) =>
        (simOut.k = "throw" <=> Len(queryEmb[1]) > Len(corpusEmb[1]))

-----------------------------------------------------------------------------
(* EVALUATION PIPELINE: encodeTexts, evaluateModel, main *)

RECALL_K_VALUES == {1, 3, 5, 10}

\* The external provider: extractor(text, {pooling, normalize}) of model m.
\* It is a function of the model and the text; distinct texts of one phase
\* get distinct vectors.
TextCode(t) ==
    CASE t \in {"a", "p"} -> 1
      [] t \in {"b", "q"} -> 2
      [] t \in {"c", "r"} -> 3
Extractor(m, t) == <<TextCode(t), m>>

\* the texts the running encodeTexts call was given
Texts == IF phase = "xml" THEN xmlTexts ELSE descriptions

\* A batch that loses its last text (slice end off by one).
BatchOfDropLast(texts, start, size) ==
    Slice(texts, start, Min(start + size, Len(texts)) - 1)

\* texts.slice(i, Math.min(i + batchSize, texts.length))
BatchOf(texts, start, size) == Slice(texts, start, Min(start + size, Len(texts)))

Init ==
    /\ batchSize \in 1..MaxBatch
    /\ xmlTexts = <<>>
    /\ descriptions = <<>>
    /\ pc = "main"
    /\ model = 0
    /\ phase = "none"
    /\ extractor = 0
    /\ i = 0
    /\ batch = <<>>
    /\ bpos = 0
    /\ allEmbeddings = <<>>
    /\ peakRss = 0
    /\ inflight = {}
    /\ xmlResult = None
    /\ queryResult = None
    /\ allResults = <<>>
    /\ reported = <<>>
    /\ failure = None
    /\ obtained = {}
    /\ MetricsIdle
    /\ SimIdle

\* main: const [xmlTexts, descriptions] = loadDataset(DATA_PATH)
LoadDataset ==
    /\ pc = "main"
    /\ \E n \in 0..MaxTexts : \E lines \in [1..n -> Items] :
          /\ xmlTexts' = [p \in 1..n |-> lines[p].reply]
          /\ descriptions' = [p \in 1..n |-> lines[p].description]
    /\ pc' = "models"
    /\ UNCHANGED <<batchSize, model, phase, extractor, i, batch, bpos,
                   allEmbeddings, peakRss, inflight, xmlResult, queryResult,
                   allResults, reported, failure, obtained, metricVars, simVars>>

\* main: the next entry of MODELS; evaluateModel calls pipeline() and awaits it
NextModel ==
    /\ pc = "models"
    /\ model < NumModels
    /\ model' = model + 1
    /\ extractor' = 0
    /\ xmlResult' = None
    /\ queryResult' = None
    /\ phase' = "none"
    /\ pc' = "pipeline"
    /\ UNCHANGED <<batchSize, xmlTexts, descriptions, i, batch, bpos,
                   allEmbeddings, peakRss, inflight, allResults, reported,
                   failure, obtained, metricVars, simVars>>

\* evaluateModel: pipeline() resolves; encodeTexts(extractor, xmlTexts, ...) starts
PipelineResolve ==
    /\ pc = "pipeline"
    /\ extractor' = model
    /\ obtained' = obtained \cup {model}
    /\ phase' = "xml"
    /\ allEmbeddings' = <<>>
    /\ peakRss' = 0
    /\ i' = 0
    /\ batch' = <<>>
    /\ bpos' = 0
    /\ pc' = "batches"
    /\ UNCHANGED <<batchSize, xmlTexts, descriptions, model, inflight, xmlResult,
                   queryResult, allResults, reported, failure, metricVars, simVars>>

\* evaluateModel: pipeline() rejects; the error leaves evaluateModel and main
PipelineReject ==
    /\ pc = "pipeline"
    /\ failure' = [model |-> model, phase |-> "load", idx |-> 0]
    /\ pc' = "failed"
    /\ UNCHANGED <<batchSize, xmlTexts, descriptions, model, phase, extractor, i,
                   batch, bpos, allEmbeddings, peakRss, inflight, xmlResult,
                   queryResult, allResults, reported, obtained, metricVars, simVars>>

\* encodeTexts: for (let i = 0; i < texts.length; i += batchSize) { batch = ... }
BatchStart ==
    /\ pc = "batches"
    /\ i < Len(Texts)
    /\ batch' = BatchOf(Texts, i, batchSize)
    /\ bpos' = 0
    /\ pc' = "texts"
    /\ UNCHANGED <<batchSize, xmlTexts, descriptions, model, phase, extractor, i,
                   allEmbeddings, peakRss, inflight, xmlResult, queryResult,
                   allResults, reported, failure, obtained, metricVars, simVars>>

\* The provider called without waiting for its result: the loop goes on.
InvokeNoAwait ==
    /\ pc = "texts"
    /\ bpos < Len(batch)
    /\ inflight' = inflight \cup {[model |-> model, phase |-> phase,
                                   idx |-> i + bpos, text |-> batch[bpos + 1]]}
    /\ bpos' = bpos + 1
    /\ UNCHANGED <<batchSize, xmlTexts, descriptions, pc, model, phase, extractor,
                   i, batch, allEmbeddings, peakRss, xmlResult, queryResult,
                   allResults, reported, failure, obtained, metricVars, simVars>>

\* encodeTexts: for (const text of batch) { await extractor(text, ...) : the call
\* is made and the thread of control suspends on it
Invoke ==
    /\ pc = "texts"
    /\ bpos < Len(batch)
    /\ inflight' = inflight \cup {[model |-> model, phase |-> phase,
                                   idx |-> i + bpos, text |-> batch[bpos + 1]]}
    /\ pc' = "await"
    /\ UNCHANGED <<batchSize, xmlTexts, descriptions, model, phase, extractor, i,
                   batch, bpos, allEmbeddings, peakRss, xmlResult, queryResult,
                   allResults, reported, failure, obtained, metricVars, simVars>>

\* encodeTexts: the awaited call resolves; allEmbeddings.push(Array.from(output.data))
ProviderReturn ==
    /\ pc = "await"
    /\ \E inv \in inflight :
          /\ inflight' = inflight \ {inv}
          /\ allEmbeddings' = Append(allEmbeddings, Extractor(inv.model, inv.text))
    /\ bpos' = bpos + 1
    /\ pc' = "texts"
    /\ UNCHANGED <<batchSize, xmlTexts, descriptions, model, phase, extractor, i,
                   batch, peakRss, xmlResult, queryResult, allResults, reported,
                   failure, obtained, metricVars, simVars>>

\* A failure caught per model: the run goes on with the next model.
ProviderRejectIsolated ==
    /\ pc = "await"
    /\ \E inv \in inflight :
          /\ inflight' = inflight \ {inv}
          /\ failure' = [model |-> inv.model, phase |-> inv.phase, idx |-> inv.idx]
    /\ pc' = "models"
    /\ UNCHANGED <<batchSize, xmlTexts, descriptions, model, phase, extractor, i,
                   batch, bpos, allEmbeddings, peakRss, xmlResult, queryResult,
                   allResults, reported, obtained, metricVars, simVars>>

\* encodeTexts: the awaited call rejects.  Nothing catches the error before
\* main().catch(console.error): encodeTexts, evaluateModel and main's loop are
\* left, their locals with them (kept here as they were at the failure).
ProviderReject ==
    /\ pc = "await"
    /\ \E inv \in inflight :
          /\ inflight' = inflight \ {inv}
          /\ failure' = [model |-> inv.model, phase |-> inv.phase, idx |-> inv.idx]
    /\ pc' = "failed"
    /\ UNCHANGED <<batchSize, xmlTexts, descriptions, model, phase, extractor, i,
                   batch, bpos, allEmbeddings, peakRss, xmlResult, queryResult,
                   allResults, reported, obtained, metricVars, simVars>>

\* encodeTexts: the batch is done; peakRss = Math.max(peakRss, mem.rss); i += batchSize
BatchEnd ==
    /\ pc = "texts"
    /\ bpos >= Len(batch)
    /\ \E rss \in RssReadings : peakRss' = Max(peakRss, rss)
    /\ i' = i + batchSize
    /\ pc' = "batches"
    /\ UNCHANGED <<batchSize, xmlTexts, descriptions, model, phase, extractor,
                   batch, bpos, allEmbeddings, inflight, xmlResult, queryResult,
                   allResults, reported, failure, obtained, metricVars, simVars>>

\* encodeTexts: what it returns after the loop, given the clock readings
EncodingResult(embeddings, peak, t) ==
    LET wallTimeMs == Num(t.wallNs, 1000000)
        cpuTimeMs == Num(t.cpuUs, 1000)
    IN  [embeddings |-> embeddings,
         peakMemoryMb |-> Num(peak, 1024 * 1024),
         wallTimeMs |-> wallTimeMs,
         cpuPercent |-> FMul(FDiv(cpuTimeMs, wallTimeMs), FromInt(100))]

\* encodeTexts returns the corpus result; evaluateModel starts
\* encodeTexts(extractor, descriptions, ...)
EncodeXmlEnd ==
    /\ pc = "batches"
    /\ i >= Len(Texts)
    /\ phase = "xml"
    /\ \E t \in TimingReadings :
          xmlResult' = EncodingResult(allEmbeddings, peakRss, t)
    /\ phase' = "query"
    /\ allEmbeddings' = <<>>
    /\ peakRss' = 0
    /\ i' = 0
    /\ batch' = <<>>
    /\ bpos' = 0
    /\ UNCHANGED <<batchSize, xmlTexts, descriptions, pc, model, extractor,
                   inflight, queryResult, allResults, reported, failure, obtained,
                   metricVars, simVars>>

\* encodeTexts returns the query result
EncodeQueryEnd ==
    /\ pc = "batches"
    /\ i >= Len(Texts)
    /\ phase = "query"
    /\ \E t \in TimingReadings :
          queryResult' = EncodingResult(allEmbeddings, peakRss, t)
    /\ phase' = "none"
    /\ allEmbeddings' = <<>>
    /\ peakRss' = 0
    /\ i' = 0
    /\ batch' = <<>>
    /\ bpos' = 0
    /\ pc' = "metrics"
    /\ UNCHANGED <<batchSize, xmlTexts, descriptions, model, extractor, inflight,
                   xmlResult, allResults, reported, failure, obtained,
                   metricVars, simVars>>

\* evaluateModel: the record built from the two encoding results
EvaluationResults(m, xml, query, sim) ==
    LET truth == [q \in 1..Len(descriptions) |-> q - 1]
        xmlTime == FDiv(xml.wallTimeMs, FromInt(1000))
        queryTime == FDiv(query.wallTimeMs, FromInt(1000))
    IN  [model |-> m,
         xml_embedding_time_sec |-> xmlTime,
         query_embedding_time_sec |-> queryTime,
         avg_xml_latency_ms |->
             FMul(FDiv(xmlTime, FromInt(Len(xmlTexts))), FromInt(1000)),
         avg_query_latency_ms |->
             FMul(FDiv(queryTime, FromInt(Len(descriptions))), FromInt(1000)),
         xml_peak_memory_mb |-> xml.peakMemoryMb,
         query_peak_memory_mb |-> query.peakMemoryMb,
         xml_cpu_percent |-> xml.cpuPercent,
         query_cpu_percent |-> query.cpuPercent,
         recall |-> [k \in RECALL_K_VALUES |-> recallAtK(sim, truth, k)],
         MRR |-> meanReciprocalRank(sim, truth)]

\* evaluateModel: similarity matrix, ground truth, metrics, return; main pushes
\* the record.  A throw of matmul leaves evaluateModel and main like any error.
BuildRecord ==
    /\ pc = "metrics"
    /\ LET sim == matmul(queryResult.embeddings, transpose(xmlResult.embeddings))
       IN  IF sim.k = "throw"
           THEN /\ failure' = [model |-> model, phase |-> "metrics", idx |-> 0]
                /\ pc' = "failed"
                /\ UNCHANGED <<allResults, xmlResult, queryResult, extractor>>
           ELSE /\ allResults' = Append(allResults,
                       EvaluationResults(model, xmlResult, queryResult, sim.v))
                /\ xmlResult' = None
                /\ queryResult' = None
                /\ extractor' = 0
                /\ pc' = "models"
                /\ UNCHANGED failure
    /\ UNCHANGED <<batchSize, xmlTexts, descriptions, model, phase, i, batch, bpos,
                   allEmbeddings, peakRss, inflight, reported, obtained,
                   metricVars, simVars>>

\* main: the loop over MODELS is over; every record is printed
Report ==
    /\ pc = "models"
    /\ model >= NumModels
    /\ reported' = allResults
    /\ pc' = "done"
    /\ UNCHANGED <<batchSize, xmlTexts, descriptions, model, phase, extractor, i,
                   batch, bpos, allEmbeddings, peakRss, inflight, xmlResult,
                   queryResult, allResults, failure, obtained, metricVars, simVars>>

Next ==
    \/ LoadDataset
    \/ NextModel
    \/ PipelineResolve
    \/ PipelineReject
    \/ BatchStart
    \/ Invoke
    \/ ProviderReturn
    \/ ProviderReject
    \/ BatchEnd
    \/ EncodeXmlEnd
    \/ EncodeQueryEnd
    \/ BuildRecord
    \/ Report

Spec == Init /\ [][Next]_vars

-----------------------------------------------------------------------------
(* Properties of the run *)

\* the provider's outputs for the texts, in the order of the texts
EmbeddingsOf(m, texts) == [p \in 1..Len(texts) |-> Extractor(m, texts[p])]

\* C1: whatever the batch size (1..MaxBatch), an encodeTexts call that returns
\* has produced exactly one embedding per text, the p-th being the provider's
\* output for the p-th text.
C1_OrderPreserved ==
    /\ xmlResult # None => xmlResult.embeddings = EmbeddingsOf(model, xmlTexts)
    /\ queryResult # None => queryResult.embeddings = EmbeddingsOf(model, descriptions)

\* ["a", "b", "c"] encoded with batch size 2 (batches of 2 and 1)
C1_Witness ==
    /\ xmlTexts = <<"a", "b", "c">>
    /\ batchSize = 2
    /\ xmlResult # None
    /\ xmlResult.embeddings = <<Extractor(model, "a"), Extractor(model, "b"),
                                Extractor(model, "c")>>

\* C2: once a provider invocation has failed during a model's corpus or query
\* encoding, the run has ended in failure: the failing encodeTexts call gave
\* evaluateModel no result, the models before the failing one and no other
\* have a record, no provider beyond the failing model's has been obtained,
\* no invocation is under way, and nothing has been reported.
C2_FailureIsTotal ==
    (failure # None /\ failure.phase \in {"xml", "query"}) =>
        /\ pc = "failed"
        /\ failure.phase = "xml" => xmlResult = None
        /\ queryResult = None
        /\ Len(allResults) = failure.model - 1
        /\ \A p \in 1..Len(allResults) : allResults[p].model < failure.model
        /\ obtained = 1..failure.model
        /\ inflight = {}
        /\ reported = <<>>

\* the second model's provider failed on a query text after the first model
\* was evaluated and some vectors of the failing call had been computed
C2_Witness ==
    /\ failure # None
    /\ failure.phase = "query"
    /\ failure.model = 2
    /\ failure.idx >= 1
    /\ Len(allResults) = 1
    /\ Len(allEmbeddings) >= 1

\* C3: at most one provider invocation is under way; it belongs to the model
\* being evaluated, whose provider is the last one obtained, all records of
\* the earlier models being appended; the invocations of the same encodeTexts
\* call for the earlier texts have all returned; and a query invocation finds
\* the corpus fully encoded.
C3_StrictSequencing ==
    /\ Cardinality(inflight) <= 1
    /\ \A inv \in inflight :
          /\ inv.model = model
          /\ extractor = model
          /\ inv.phase = phase
          /\ Len(allEmbeddings) = inv.idx
          /\ inv.phase = "query" =>
                /\ xmlResult # None
                /\ Len(xmlResult.embeddings) = Len(xmlTexts)
    /\ \A m \in obtained :
          /\ m <= model
          /\ \A inv \in inflight : inv.model >= m
          /\ Len(allResults) >= m - 1
          /\ (m < model \/ pc \in {"models", "done"}) =>
                \E p \in 1..Len(allResults) : allResults[p].model = m

\* the second text of the second model's queries is being embedded
C3_Witness ==
    \E inv \in inflight :
        /\ inv.model = 2
        /\ inv.phase = "query"
        /\ inv.idx = 1
        /\ Len(allResults) = 1

\* C5 (as stated): with an empty dataset nothing raises once the provider is
\* obtained, and none of the latency and CPU-percent fields of a record is NaN
\* or Infinity.
C5_EmptyInputSafe ==
    Len(xmlTexts) = 0 =>
        /\ failure # None => failure.phase = "load"
        /\ \A p \in 1..Len(allResults) :
              /\ IsFinite(allResults[p].avg_xml_latency_ms)
              /\ IsFinite(allResults[p].avg_query_latency_ms)
              /\ IsFinite(allResults[p].xml_cpu_percent)
              /\ IsFinite(allResults[p].query_cpu_percent)

\* On an empty text sequence encodeTexts returns an empty embeddings sequence
\* with a finite CPU percentage.
EmptyEncodeReturnsEmpty ==
    (xmlResult # None /\ Len(xmlTexts) = 0) =>
        /\ xmlResult.embeddings = <<>>
        /\ IsFinite(xmlResult.cpuPercent)

=============================================================================
